---- MODULE Spec2Model ----
(***************************************************************************)
(* Model of the resumable batch pipeline of LinkedInEmailFinder            *)
(* (src/index.js): processConnections with its progress file               *)
(* (loadProgress / saveProgress), its output file (saveResultIncremental / *)
(* csvFileExists) and the lookup provider (searchEmail).                   *)
(*                                                                         *)
(* Strings are sequences of one-character strings, so that toLowerCase and *)
(* trim are computed.  A run of processConnections is cut into steps at    *)
(* its awaits and at its writes to disk, so that a kill of the process can *)
(* fall between any two of them.                                           *)
(***************************************************************************)
EXTENDS Integers, Sequences, FiniteSets, TLC

VARIABLES
    argv,          \* process.argv.slice(2) of the latest start from the command line
    connections,   \* the array handed to processConnections (fixed per lineage)
    batchSize,     \* this.batchSize
    progressFile,  \* contents of this.progressFile on disk, or NoFile
    outputFile,    \* rows of this.outputFile on disk, or NoFile
    pc,            \* position of the process inside processConnections
    resume,        \* argument resume of the current run
    sampleSize,    \* argument sampleSize of the current run (Null = null)
    missingEmails, \* local missingEmails: indices into connections
    progress,      \* local progress (processedNames, results, startTime, lastUpdate)
    results,       \* local results
    currentSession,\* local currentSession
    startTime,     \* local startTime
    isFirstResult, \* local isFirstResult
    i,             \* outer loop variable i
    batchIndex,    \* inner loop variable batchIndex
    nRuns,         \* number of runs started in this lineage (the clock)
    nFaults,       \* number of faults so far: kills and provider failures
    run,           \* history: what the current run found when it started
    ret,           \* history: what the last run that returned gave back
    hist,          \* history of the lineage, and the files as main found them
    lookupCount    \* history: per derived key, the lookups issued in the lineage

vars == <<argv, connections, batchSize, progressFile, outputFile, pc, resume, sampleSize,
          missingEmails, progress, results, currentSession, startTime,
          isFirstResult, i, batchIndex, nRuns, nFaults, run, ret, hist,
          lookupCount>>

(***************************** bounds *************************************)
MaxConn == 6
MaxRuns == 3
MaxFaults == 1
MaxSample == 2
LongConn == 11
MaxBatch == 5
LiveConn == 7
MainConn == 2

(************************* program constants ******************************)
CheckpointEvery == 5
DefaultBatchSize == 5

TimeNull == 0

(******************************* strings **********************************)
LowerOf == [c \in {"N", "X", "A"} |-> CASE c = "N" -> "n" [] c = "X" -> "x" [] c = "A" -> "a"]

ToLowerChar(c) == IF c \in DOMAIN LowerOf THEN LowerOf[c] ELSE c

ToLowerCase(s) == [k \in 1..Len(s) |-> ToLowerChar(s[k])]

RECURSIVE TrimStart(_)
TrimStart(s) == IF s # <<>> /\ Head(s) = " " THEN TrimStart(Tail(s)) ELSE s

RECURSIVE TrimEnd(_)
TrimEnd(s) == IF s # <<>> /\ s[Len(s)] = " " THEN TrimEnd(SubSeq(s, 1, Len(s) - 1)) ELSE s

Trim(s) == TrimEnd(TrimStart(s))

generateConnectionKey(name, company) == Trim(ToLowerCase(name \o <<"|">> \o company))

KeyOf(conn) == generateConnectionKey(conn.name, conn.company)

(****************************** helpers ***********************************)
Range(s) == {s[k] : k \in 1..Len(s)}

Min(a, b) == IF a < b THEN a ELSE b

\* Array.prototype.slice(from, to) for 0 <= from, 0 <= to
Slice(s, from, to) == SubSeq(s, from + 1, Min(to, Len(s)))

\* Set.prototype.add on a Set kept in insertion order
SetAdd(s, k) == IF k \in Range(s) THEN s ELSE Append(s, k)

\* new Set(array): the distinct elements in order of first occurrence
RECURSIVE NewSet(_)
NewSet(s) == IF s = <<>> THEN <<>> ELSE SetAdd(NewSet(SubSeq(s, 1, Len(s) - 1)), s[Len(s)])

\* an optional number: <<>> is null, <<k>> is the number k
Truthy(opt) == opt # <<>> /\ opt[1] # 0

(******************************* inputs ***********************************)
Digits == <<"1", "2", "3", "4", "5", "6", "7", "8", "9", "0", "a", "b", "c">>

NoEmail == <<>>
NotAvailable == <<"N", "/", "A">>
SomeEmail == <<"a", "@", "x">>

\* a normalized row (normalizeConnectionData): Full Name, Company, Email
PlainConn(k) == [name |-> <<"n", Digits[k]>>, company |-> <<"x">>, email |-> NoEmail]

\* a row that differs from row 1 in letter case only, hence has row 1's key
SameKeyAsFirst == [name |-> <<"N", "1">>, company |-> <<"X">>, email |-> NoEmail]

Plain(n) == [k \in 1..n |-> PlainConn(k)]

\* The inputs of a lineage: up to MaxConn rows without email and with
\* pairwise distinct keys, and the same with one row changed: the first row
\* carries an email or the N/A marker, or the last row has the first row's key,
\* or both: the first row carries an email and the last row has its key.
Inputs ==
    UNION {{Plain(n)}
           \cup (IF n >= 1
                 THEN {[Plain(n) EXCEPT ![1].email = SomeEmail],
                       [Plain(n) EXCEPT ![1].email = NotAvailable]}
                 ELSE {})
           \cup (IF n >= 2
                 THEN {[Plain(n) EXCEPT ![n] = SameKeyAsFirst],
                       [Plain(n) EXCEPT ![1].email = SomeEmail, ![n] = SameKeyAsFirst]}
                 ELSE {}) :
           n \in 0..MaxConn}

BatchSizes == {DefaultBatchSize}

\* mutant: every row is taken as a row without email
IsMissingEmail_Any(conn) == TRUE

\* conn.Email || conn['Email Address'] || ''; !email || email.trim() === '' || email === 'N/A'
IsMissingEmail(conn) ==
    \/ conn.email = <<>>
    \/ Trim(conn.email) = <<>>
    \/ conn.email = NotAvailable

RECURSIVE FilterMissing(_, _)
FilterMissing(conns, k) ==
    IF k > Len(conns) THEN <<>>
    ELSE (IF IsMissingEmail(conns[k]) THEN <<k>> ELSE <<>>) \o FilterMissing(conns, k + 1)

\* connections.filter(conn => missing email), as indices into connections
MissingEmails(conns) == FilterMissing(conns, 1)

RECURSIVE SelectIdx(_, _, _)
SelectIdx(idx, conns, processedNames) ==
    IF idx = <<>> THEN <<>>
    ELSE (IF KeyOf(conns[Head(idx)]) \in Range(processedNames) THEN <<>> ELSE <<Head(idx)>>)
         \o SelectIdx(Tail(idx), conns, processedNames)

\* mutant: nothing is filtered out
filterProcessedConnections_KeepsAll(idx, conns, processedNames) == idx

filterProcessedConnections(idx, conns, processedNames) == SelectIdx(idx, conns, processedNames)

(************************** lookup provider *******************************)
HIGH == <<"H", "I", "G", "H">>
LOW == <<"L", "O", "W">>
NOT_FOUND == <<"N", "O", "T", "_", "F", "O", "U", "N", "D">>

\* An answer of the model: lines "TAG: value".  A failure of the web search
\* or of the model call is an error with a message.
FoundText ==
    <<[tag |-> "EMAIL", val |-> <<" ">> \o SomeEmail],
      [tag |-> "SOURCE", val |-> <<"w">>],
      [tag |-> "CONFIDENCE", val |-> HIGH \o <<" ">>]>>

ErrorMessage == <<"t", "i", "m", "e", "o", "u", "t">>

Outcomes == {[kind |-> "ok", text |-> FoundText], [kind |-> "error", message |-> ErrorMessage]}

\* response.match(/TAG:\s*([^\n\r]+)/i): the first line with that tag
FirstLine(text, tag) ==
    LET hits == {k \in 1..Len(text) : text[k].tag = tag}
    IN  IF hits = {} THEN 0 ELSE CHOOSE k \in hits : \A h \in hits : k <= h

extractSource(text) ==
    IF FirstLine(text, "SOURCE") = 0 THEN <<>> ELSE Trim(text[FirstLine(text, "SOURCE")].val)

\* /[\w\.-]+@[\w\.-]+\.\w+/ over the model's alphabet: the text is kept when
\* the pattern does not match, and the answers of the model hold one token
extractEmail(text) ==
    IF FirstLine(text, "EMAIL") = 0 THEN <<>>
    ELSE LET emailText == Trim(text[FirstLine(text, "EMAIL")].val)
         IN  IF emailText = NOT_FOUND THEN <<>> ELSE emailText

extractConfidence(text) ==
    IF FirstLine(text, "CONFIDENCE") = 0 THEN LOW
    ELSE Trim(text[FirstLine(text, "CONFIDENCE")].val)

\* the object searchEmail returns: from the answer, or from its catch block
searchEmail(name, company, outcome) ==
    IF outcome.kind = "ok"
    THEN [name |-> name, company |-> company, response |-> outcome.text,
          source |-> extractSource(outcome.text),
          email |-> extractEmail(outcome.text),
          confidence |-> extractConfidence(outcome.text)]
    ELSE [name |-> name, company |-> company, response |-> outcome.message,
          source |-> <<>>, email |-> <<>>, confidence |-> LOW]

\* mutant: searchEmail has no catch block, a failure of the provider is thrown
searchEmailThrows_NoCatch(outcome) == outcome.kind = "error"

\* Does searchEmail throw?  Its try block (lines 327-386) holds the web search,
\* the model call and the three extractions, and its catch block returns: no
\* outcome of the provider leaves searchEmail as an exception.
searchEmailThrows(outcome) == FALSE

(***************************** the two files ******************************)
\* readable: readFileSync and JSON.parse succeed on the file
AbsentProgressFile ==
    [exists |-> FALSE, readable |-> TRUE, processedNames |-> <<>>, results |-> <<>>,
     startTime |-> TimeNull, lastUpdate |-> TimeNull, totalProcessed |-> 0]

AbsentOutputFile == [exists |-> FALSE, rows |-> <<>>]

EmptyProgress ==
    [processedNames |-> <<>>, results |-> <<>>, startTime |-> TimeNull, lastUpdate |-> TimeNull]

\* mutant: the results of the file are not loaded
loadProgress_NoResults(file) ==
    IF file.exists /\ file.readable
    THEN [processedNames |-> NewSet(file.processedNames), results |-> <<>>,
          startTime |-> file.startTime, lastUpdate |-> file.lastUpdate]
    ELSE EmptyProgress

\* mutant: the start time of the file is not loaded
loadProgress_NoStartTime(file) ==
    IF file.exists /\ file.readable
    THEN [processedNames |-> NewSet(file.processedNames), results |-> file.results,
          startTime |-> TimeNull, lastUpdate |-> file.lastUpdate]
    ELSE EmptyProgress

\* mutant: a file that cannot be read or parsed is taken as it was written
loadProgress_IgnoresError(file) ==
    IF file.exists
    THEN [processedNames |-> NewSet(file.processedNames), results |-> file.results,
          startTime |-> file.startTime, lastUpdate |-> file.lastUpdate]
    ELSE EmptyProgress

\* lines 224-237: the file is read and parsed inside a try block whose catch
\* block falls through to the empty state of lines 239-244
loadProgress(file) ==
    IF file.exists /\ file.readable
    THEN [processedNames |-> NewSet(file.processedNames), results |-> file.results,
          startTime |-> file.startTime, lastUpdate |-> file.lastUpdate]
    ELSE EmptyProgress

saveProgress(processedNames, res, start, now) ==
    [exists |-> TRUE, readable |-> TRUE, processedNames |-> processedNames, results |-> res,
     startTime |-> start, lastUpdate |-> now, totalProcessed |-> Len(processedNames)]

csvFileExists(file) == file.exists /\ Len(file.rows) > 0

HeaderRow == [kind |-> "header"]

DataRow(result) == [kind |-> "data", result |-> result]

\* mutant: a checkpoint is written after every record
CheckpointDue_Always(session, g, tot) == TRUE

\* mutant: the row is left in a buffer and does not reach the file
saveResultIncremental_Buffered(file, result, isFirst) ==
    IF isFirst
    THEN [exists |-> TRUE, rows |-> <<HeaderRow>>]
    ELSE file

\* mutant: the writer always appends, also for the first result of a run
saveResultIncremental_AlwaysAppend(file, result, isFirst) ==
    [exists |-> TRUE, rows |-> Append(file.rows, DataRow(result))]

\* csv-writer: append false writes the header and the record over the file,
\* append true adds the record at the end of the file
saveResultIncremental(file, result, isFirst) ==
    IF isFirst
    THEN [exists |-> TRUE, rows |-> <<HeaderRow, DataRow(result)>>]
    ELSE [exists |-> TRUE, rows |-> Append(file.rows, DataRow(result))]

(************************** processConnections ****************************)
DataRows(file) ==
    LET Data(r) == r.kind = "data"
    IN  SelectSeq(file.rows, Data)

\* history of the latest run: how it ended (end), its arguments, its
\* candidates (cand) and the candidates left before the sample limit
\* (remaining), the data rows and the persisted keys it found, whether it
\* found no file at all (fresh), how the run before it ended (after) and, when
\* that run returned, its arguments and candidates (prevResume, prevSample,
\* prevCand); the candidates whose lookup it issued (looked), the results that
\* came back (session) and which of them came from a failed lookup (failed);
\* the results the progress file gave when the run started (fileResults),
\* whether a write to one of the two files failed in the run (ioFailed), and
\* the exit code of the process (exit: <<>> while it runs or when it is killed)
NoRun ==
    [end |-> "none", resume |-> FALSE, sampleSize |-> <<>>, cand |-> <<>>,
     remaining |-> <<>>, rows |-> <<>>, keys |-> <<>>, fresh |-> FALSE,
     after |-> "none", prevResume |-> FALSE, prevSample |-> <<>>, prevCand |-> <<>>,
     prevRemaining |-> 0,
     looked |-> <<>>, session |-> <<>>, failed |-> {},
     fileResults |-> <<>>, ioFailed |-> FALSE, exit |-> <<>>]

Locals ==
    <<resume, sampleSize, missingEmails, progress, results, currentSession,
      startTime, isFirstResult, i, batchIndex>>

\* the locals of a run when no run is active
LocalsCleared ==
    /\ resume' = FALSE
    /\ sampleSize' = <<>>
    /\ missingEmails' = <<>>
    /\ progress' = EmptyProgress
    /\ results' = <<>>
    /\ currentSession' = <<>>
    /\ startTime' = TimeNull
    /\ isFirstResult' = FALSE
    /\ i' = 0
    /\ batchIndex' = 0

Now == nRuns

total == Len(missingEmails)

globalIndex == i + batchIndex

\* mutant: the candidates are taken from the end of the array
connection_Reversed == connections[missingEmails[Len(missingEmails) - (i + batchIndex)]]

connection == connections[missingEmails[globalIndex + 1]]

\* the state after construction, for the array loaded from the source file
InitWith(inputs, sizes) ==
    /\ argv = <<>>
    /\ connections \in inputs
    /\ batchSize \in sizes
    /\ progressFile = AbsentProgressFile
    /\ outputFile = AbsentOutputFile
    /\ pc = "idle"
    /\ resume = FALSE
    /\ sampleSize = <<>>
    /\ missingEmails = <<>>
    /\ progress = EmptyProgress
    /\ results = <<>>
    /\ currentSession = <<>>
    /\ startTime = TimeNull
    /\ isFirstResult = FALSE
    /\ i = 0
    /\ batchIndex = 0
    /\ nRuns = 0
    /\ nFaults = 0
    /\ run = NoRun
    /\ ret = <<>>
    /\ hist = [proper |-> TRUE, allResume |-> TRUE,
               before |-> <<AbsentProgressFile, AbsentOutputFile>>]
    /\ lookupCount = [k \in {KeyOf(connections[n]) : n \in 1..Len(connections)} |-> 0]

InitFor(inputs) == InitWith(inputs, BatchSizes)

Init == InitFor(Inputs)

\* mutant: the sample limit is applied before the processed keys are filtered out
Candidates_SampleFirst(conns, prog, rs, ss) ==
    LET missing == MissingEmails(conns)
        sampled == IF Truthy(ss) /\ ss[1] > 0 THEN Slice(missing, 0, ss[1]) ELSE missing
    IN  IF rs /\ Len(prog.processedNames) > 0
        THEN filterProcessedConnections(sampled, conns, prog.processedNames)
        ELSE sampled

\* mutant: the sample limit is ignored
Candidates_NoLimit(conns, prog, rs, ss) ==
    LET missing == MissingEmails(conns)
    IN  IF rs /\ Len(prog.processedNames) > 0
        THEN filterProcessedConnections(missing, conns, prog.processedNames)
        ELSE missing

\* mutant: the limit is applied without the test sampleSize > 0, and slice
\* with a negative end drops that many candidates from the end
Candidates_NoSignTest(conns, prog, rs, ss) ==
    LET missing == MissingEmails(conns)
        unprocessed == IF rs /\ Len(prog.processedNames) > 0
                       THEN filterProcessedConnections(missing, conns, prog.processedNames)
                       ELSE missing
    IN  IF Truthy(ss)
        THEN (IF ss[1] > 0
              THEN Slice(unprocessed, 0, ss[1])
              ELSE SubSeq(unprocessed, 1, Len(unprocessed) + ss[1]))
        ELSE unprocessed

\* lines 548-579: the candidates of a run
Candidates(conns, prog, rs, ss) ==
    LET missing == MissingEmails(conns)
        unprocessed == IF rs /\ Len(prog.processedNames) > 0
                       THEN filterProcessedConnections(missing, conns, prog.processedNames)
                       ELSE missing
    IN  IF Truthy(ss) /\ ss[1] > 0 THEN Slice(unprocessed, 0, ss[1]) ELSE unprocessed

\* the candidates left before the sample limit is applied
Remaining(conns, prog, rs) == Candidates(conns, prog, rs, <<>>)

RunSnapshot(prog, rs, ss, cand) ==
    [end |-> "running", resume |-> rs, sampleSize |-> ss, cand |-> cand,
     remaining |-> Remaining(connections, prog, rs),
     rows |-> DataRows(outputFile),
     keys |-> progressFile.processedNames,
     fresh |-> ~progressFile.exists /\ ~outputFile.exists,
     after |-> run.end,
     prevResume |-> run.end = "returned" /\ run.resume,
     prevSample |-> IF run.end = "returned" THEN run.sampleSize ELSE <<>>,
     prevCand |-> IF run.end = "returned" THEN run.cand ELSE <<>>,
     prevRemaining |-> IF run.end = "returned" THEN Len(run.remaining) ELSE 0,
     looked |-> <<>>, session |-> <<>>, failed |-> {},
     fileResults |-> IF progressFile.readable THEN progressFile.results ELSE <<>>,
     ioFailed |-> FALSE, exit |-> <<>>]

\* lines 910-913, 547-628: loadConnections has resolved; from the call of
\* processConnections to the first iteration of the loop, or to the early
\* return when no candidate is left
StartRun(rs, ss) ==
    /\ pc \in {"idle", "load"}
    /\ nRuns < MaxRuns
    /\ nRuns' = nRuns + 1
    /\ LET prog == IF rs THEN loadProgress(progressFile) ELSE EmptyProgress
           cand == Candidates(connections, prog, rs, ss)
           snap == RunSnapshot(prog, rs, ss, cand)
       IN  /\ hist' = [hist EXCEPT !.proper = @ /\ (rs \/ nRuns = 0),
                                   !.allResume = @ /\ rs]
           /\ IF Len(cand) = 0
              THEN /\ pc' = "idle"
                   /\ ret' = prog.results
                   /\ run' = [snap EXCEPT !.end = "returned", !.exit = <<0>>]
                   /\ LocalsCleared
              ELSE /\ pc' = "lookup"
                   /\ resume' = rs
                   /\ sampleSize' = ss
                   /\ missingEmails' = cand
                   /\ progress' = prog
                   /\ results' = IF rs THEN prog.results ELSE <<>>
                   /\ currentSession' = <<>>
                   /\ startTime' = IF prog.startTime # TimeNull THEN prog.startTime ELSE nRuns'
                   /\ isFirstResult' = (~rs \/ ~csvFileExists(outputFile))
                   /\ i' = 0
                   /\ batchIndex' = 0
                   /\ run' = snap
                   /\ ret' = <<>>
    /\ UNCHANGED <<argv, connections, batchSize, progressFile, outputFile, nFaults, lookupCount>>

\* lines 638-646: searchEmail is called for the candidate at globalIndex
IssueLookup ==
    /\ pc = "lookup"
    /\ pc' = "await"
    /\ lookupCount' = [lookupCount EXCEPT ![KeyOf(connection)] = @ + 1]
    /\ run' = [run EXCEPT !.looked = Append(@, missingEmails[globalIndex + 1])]
    /\ UNCHANGED <<argv, connections, batchSize, progressFile, outputFile, nRuns, nFaults, ret, hist>>
    /\ UNCHANGED Locals

\* lines 642-649: searchEmail returns and the result is pushed; an exception
\* out of searchEmail would leave processConnections through the await (no try
\* block around it) and end the process in the catch block of main
LookupReturns(outcome) ==
    /\ pc = "await"
    /\ outcome.kind = "error" => nFaults < MaxFaults
    /\ nFaults' = IF outcome.kind = "error" THEN nFaults + 1 ELSE nFaults
    /\ IF searchEmailThrows(outcome)
       THEN /\ run' = [run EXCEPT !.end = "threw", !.exit = <<1>>]
            /\ pc' = "idle"
            /\ LocalsCleared
       ELSE LET result == searchEmail(connection.name, connection.company, outcome)
            IN  /\ currentSession' = Append(currentSession, result)
                /\ results' = Append(results, result)
                /\ run' = [run EXCEPT !.session = Append(@, result),
                                      !.failed = IF outcome.kind = "error"
                                                 THEN @ \cup {Len(currentSession) + 1} ELSE @]
                /\ pc' = "write"
                /\ UNCHANGED <<resume, sampleSize, missingEmails, progress, startTime,
                               isFirstResult, i, batchIndex>>
    /\ UNCHANGED <<argv, connections, batchSize, progressFile, outputFile, nRuns, ret, hist,
                   lookupCount>>

\* lines 651-655: the row of the result is written to the output file
WriteRow ==
    /\ pc = "write"
    /\ outputFile' = saveResultIncremental(outputFile, currentSession[Len(currentSession)],
                                           isFirstResult)
    /\ isFirstResult' = FALSE
    /\ pc' = "mark"
    /\ UNCHANGED <<argv, connections, batchSize, progressFile, nRuns, nFaults,
                   run, ret, hist, lookupCount>>
    /\ UNCHANGED <<resume, sampleSize, missingEmails, progress, results, currentSession,
                   startTime, i, batchIndex>>

\* mutant: the checkpoint is written after the last record only
CheckpointDue_LastOnly(session, g, tot) == Len(session) > 0 /\ g = tot - 1

\* lines 665-666: is a checkpoint due after this record
CheckpointDue(session, g, tot) ==
    \/ Len(session) % CheckpointEvery = 0
    \/ (Len(session) > 0 /\ g = tot - 1)

\* mutant: the delay is awaited after every record, the last included
DelayDue_Always(g, tot) == TRUE

\* lines 676-678: is the delay awaited after this record
DelayDue(g, tot) == g < tot - 1

\* mutant: the outer loop steps by one, not by the batch size
LoopAdvance_StepOne(ii, bi, tot, bs) ==
    IF bi + 1 < Len(Slice([k \in 1..tot |-> k], ii, ii + bs))
    THEN [a |-> TRUE, i |-> ii, batchIndex |-> bi + 1]
    ELSE IF ii + 1 < tot
         THEN [a |-> TRUE, i |-> ii + 1, batchIndex |-> 0]
         ELSE [a |-> FALSE, i |-> ii + 1, batchIndex |-> 0]

\* lines 631-635, 679-686: the next position of the two loops; a: the loops go on
LoopAdvance(ii, bi, tot, bs) ==
    IF bi + 1 < Len(Slice([k \in 1..tot |-> k], ii, ii + bs))
    THEN [a |-> TRUE, i |-> ii, batchIndex |-> bi + 1]
    ELSE IF ii + bs < tot
         THEN [a |-> TRUE, i |-> ii + bs, batchIndex |-> 0]
         ELSE [a |-> FALSE, i |-> ii + bs, batchIndex |-> 0]

\* lines 657-678: the key is marked, the checkpoint written when due; then
\* either the delay starts or the loops go on without delay
MarkProcessed ==
    /\ pc = "mark"
    /\ LET names == SetAdd(progress.processedNames, KeyOf(connection))
           next == LoopAdvance(i, batchIndex, total, batchSize)
       IN  /\ progress' = [progress EXCEPT !.processedNames = names]
           /\ progressFile' = IF CheckpointDue(currentSession, globalIndex, total)
                              THEN saveProgress(names, results, startTime, Now)
                              ELSE progressFile
           /\ IF DelayDue(globalIndex, total)
              THEN pc' = "sleep" /\ UNCHANGED <<i, batchIndex>>
              ELSE /\ pc' = IF next.a THEN "lookup" ELSE "final"
                   /\ i' = next.i
                   /\ batchIndex' = next.batchIndex
    /\ UNCHANGED <<argv, connections, batchSize, outputFile, nRuns, nFaults,
                   run, ret, hist, lookupCount>>
    /\ UNCHANGED <<resume, sampleSize, missingEmails, results, currentSession,
                   startTime, isFirstResult>>

\* lines 675-686: the delay is over, the loops go on
Sleep ==
    /\ pc = "sleep"
    /\ LET next == LoopAdvance(i, batchIndex, total, batchSize)
       IN  /\ pc' = IF next.a THEN "lookup" ELSE "final"
           /\ i' = next.i
           /\ batchIndex' = next.batchIndex
    /\ UNCHANGED <<argv, connections, batchSize, progressFile, outputFile, nRuns, nFaults,
                   run, ret, hist, lookupCount>>
    /\ UNCHANGED <<resume, sampleSize, missingEmails, progress, results, currentSession,
                   startTime, isFirstResult>>

\* lines 688-700: the final save and the return
FinalSave ==
    /\ pc = "final"
    /\ progressFile' = saveProgress(progress.processedNames, results, startTime, Now)
    /\ ret' = results
    /\ run' = [run EXCEPT !.end = "returned", !.exit = <<0>>]
    /\ pc' = "idle"
    /\ LocalsCleared
    /\ UNCHANGED <<argv, connections, batchSize, outputFile, nRuns, nFaults, hist, lookupCount>>

\* the process is killed inside processConnections: its memory is gone, the
\* two files stay as they are
Kill ==
    /\ pc # "idle"
    /\ nFaults < MaxFaults
    /\ nFaults' = nFaults + 1
    /\ run' = [run EXCEPT !.end = IF pc \in {"sleep", "final"} THEN "boundary" ELSE "mid"]
    /\ ret' = <<>>
    /\ pc' = "idle"
    /\ LocalsCleared
    /\ UNCHANGED <<argv, connections, batchSize, progressFile, outputFile, nRuns, hist, lookupCount>>

SampleSizes == {<<>>} \cup {<<k>> : k \in 1..MaxSample}

Run == \E rs \in BOOLEAN, ss \in SampleSizes : StartRun(rs, ss)

Lookup == \E outcome \in Outcomes : LookupReturns(outcome)

Next ==
    \/ Run
    \/ IssueLookup
    \/ Lookup
    \/ WriteRow
    \/ MarkProcessed
    \/ Sleep
    \/ FinalSave

Spec == Init /\ [][Next]_vars

NextKill == Next \/ Kill

SpecKill == Init /\ [][NextKill]_vars

\* a source file with LongConn rows without email: a run over more than two
\* batches and more than two checkpoints
InitLong == InitFor({Plain(LongConn)})

SpecLong == InitLong /\ [][Next]_vars

\* the same source file under every BATCH_SIZE from 1 to MaxBatch
\* (line 18: parseInt(process.env.BATCH_SIZE) || 5)
InitBatch == InitWith({Plain(LongConn)}, 1..MaxBatch)

SpecBatch == InitBatch /\ [][Next]_vars

\* Every step inside processConnections is taken in the end: the awaited
\* promises of saveResultIncremental and sleep settle, the synchronous code
\* between them runs, and the lookup provider answers or fails each call.
\* Whether and when a run is started is up to the caller.
FairLoop ==
    /\ WF_vars(IssueLookup)
    /\ WF_vars(Lookup)
    /\ WF_vars(WriteRow)
    /\ WF_vars(MarkProcessed)
    /\ WF_vars(Sleep)
    /\ WF_vars(FinalSave)

\* a source file with LiveConn rows without email, under every BATCH_SIZE
\* from 1 to MaxBatch
InitLive == InitWith({Plain(LiveConn)}, 1..MaxBatch)

SpecLive == InitLive /\ [][Next]_vars /\ FairLoop

(*********************** failures of the file system ***********************)
\* the errors a write to a file can end with
WriteErrors == {"ENOSPC"}

\* mutant: saveResultIncremental has no catch block
saveResultIncrementalThrows_NoCatch(error) == TRUE

\* lines 747-768: createCsvWriter and the awaited writeRecords are inside the
\* try block, the catch block logs and returns
saveResultIncrementalThrows(error) == FALSE

\* mutant: saveProgress has no catch block
saveProgressThrows_NoCatch(error) == TRUE

\* lines 254-266: writeFileSync is inside the try block, the catch block logs
saveProgressThrows(error) == FALSE

\* an exception leaves processConnections and ends the process in the catch
\* block of main (lines 935-938)
Throws ==
    /\ run' = [run EXCEPT !.end = "threw", !.exit = <<1>>]
    /\ pc' = "idle"
    /\ LocalsCleared

\* lines 651-655 when writeRecords fails: nothing reaches the file, and
\* isFirstResult is cleared all the same
WriteRowFails(error) ==
    /\ pc = "write"
    /\ nFaults < MaxFaults
    /\ nFaults' = nFaults + 1
    /\ IF saveResultIncrementalThrows(error)
       THEN Throws
       ELSE /\ isFirstResult' = FALSE
            /\ pc' = "mark"
            /\ run' = [run EXCEPT !.ioFailed = TRUE]
            /\ UNCHANGED <<resume, sampleSize, missingEmails, progress, results,
                           currentSession, startTime, i, batchIndex>>
    /\ UNCHANGED <<argv, connections, batchSize, progressFile, outputFile, nRuns, ret, hist,
                   lookupCount>>

\* lines 657-678 when the checkpoint is due and writeFileSync fails
CheckpointFails(error) ==
    /\ pc = "mark"
    /\ CheckpointDue(currentSession, globalIndex, total)
    /\ nFaults < MaxFaults
    /\ nFaults' = nFaults + 1
    /\ IF saveProgressThrows(error)
       THEN Throws
       ELSE LET names == SetAdd(progress.processedNames, KeyOf(connection))
                next == LoopAdvance(i, batchIndex, total, batchSize)
            IN  /\ progress' = [progress EXCEPT !.processedNames = names]
                /\ run' = [run EXCEPT !.ioFailed = TRUE]
                /\ IF DelayDue(globalIndex, total)
                   THEN pc' = "sleep" /\ UNCHANGED <<i, batchIndex>>
                   ELSE /\ pc' = IF next.a THEN "lookup" ELSE "final"
                        /\ i' = next.i
                        /\ batchIndex' = next.batchIndex
                /\ UNCHANGED <<resume, sampleSize, missingEmails, results, currentSession,
                               startTime, isFirstResult>>
    /\ UNCHANGED <<argv, connections, batchSize, progressFile, outputFile, nRuns, ret, hist,
                   lookupCount>>

\* lines 688-700 when writeFileSync fails in the final save
FinalSaveFails(error) ==
    /\ pc = "final"
    /\ nFaults < MaxFaults
    /\ nFaults' = nFaults + 1
    /\ IF saveProgressThrows(error)
       THEN Throws /\ ret' = ret
       ELSE /\ ret' = results
            /\ run' = [run EXCEPT !.end = "returned", !.exit = <<0>>, !.ioFailed = TRUE]
            /\ pc' = "idle"
            /\ LocalsCleared
    /\ UNCHANGED <<argv, connections, batchSize, progressFile, outputFile, nRuns, hist, lookupCount>>

\* between two runs the progress file is damaged: it is there, but reading or
\* parsing it fails
Corrupt ==
    /\ pc = "idle"
    /\ progressFile.exists
    /\ progressFile.readable
    /\ nFaults < MaxFaults
    /\ nFaults' = nFaults + 1
    /\ progressFile' = [progressFile EXCEPT !.readable = FALSE]
    /\ UNCHANGED <<argv, connections, batchSize, outputFile, pc, nRuns, run, ret, hist, lookupCount>>
    /\ UNCHANGED Locals

WriteFails == \E error \in WriteErrors : WriteRowFails(error)

SaveFails == \E error \in WriteErrors : CheckpointFails(error) \/ FinalSaveFails(error)

NextFault == Next \/ WriteFails \/ SaveFails \/ Corrupt

SpecFault == Init /\ [][NextFault]_vars

(********************************* main ************************************)
\* which of the two calls of unlinkSync in resetProgress throws, if any
UnlinkFailures == {"none", "progress", "output"}

\* lines 272-285: the two files after resetProgress; an exception of the
\* first unlinkSync skips the second, and the catch block logs and returns
resetProgress(pfile, ofile, failure) ==
    IF pfile.exists /\ failure = "progress"
    THEN [progressFile |-> pfile, outputFile |-> ofile]
    ELSE IF ofile.exists /\ failure = "output"
         THEN [progressFile |-> AbsentProgressFile, outputFile |-> ofile]
         ELSE [progressFile |-> AbsentProgressFile, outputFile |-> AbsentOutputFile]

\* why loadConnections rejects: the source file does not exist (line 44), or
\* no line of it holds 'First Name' or 'Full Name' (line 121)
SourceFailures == {"missing", "no header"}

\* lines 870-910 with --reset: the credential is set, resetProgress runs, and
\* main awaits loadConnections
Reset(failure) ==
    /\ pc = "idle"
    /\ nRuns < MaxRuns
    /\ failure = "progress" => progressFile.exists
    /\ failure = "output" => outputFile.exists
    /\ failure # "none" => nFaults < MaxFaults
    /\ nFaults' = IF failure # "none" THEN nFaults + 1 ELSE nFaults
    /\ progressFile' = resetProgress(progressFile, outputFile, failure).progressFile
    /\ outputFile' = resetProgress(progressFile, outputFile, failure).outputFile
    /\ hist' = [hist EXCEPT !.before = <<progressFile, outputFile>>]
    /\ run' = [run EXCEPT !.end = "reset", !.exit = <<>>]
    /\ pc' = "load"
    /\ UNCHANGED <<argv, connections, batchSize, nRuns, ret, lookupCount>>
    /\ UNCHANGED Locals

\* lines 910, 935-938: loadConnections rejects, the catch block of main ends
\* the process with exit code 1; without --reset this is the first step of main
SourceFails(cause) ==
    /\ pc \in {"idle", "load"}
    /\ hist' = [hist EXCEPT !.before = IF pc = "idle" THEN <<progressFile, outputFile>> ELSE @]
    /\ run' = [run EXCEPT !.end = "no source", !.exit = <<1>>]
    /\ pc' = "idle"
    /\ UNCHANGED <<argv, connections, batchSize, progressFile, outputFile, nRuns, nFaults, ret,
                   lookupCount>>
    /\ UNCHANGED Locals

\* lines 883-886: OPENAI_API_KEY is not set, the process ends with exit code 1
NoCredential ==
    /\ pc = "idle"
    /\ hist' = [hist EXCEPT !.before = <<progressFile, outputFile>>]
    /\ run' = [run EXCEPT !.end = "no credential", !.exit = <<1>>]
    /\ UNCHANGED <<argv, connections, batchSize, progressFile, outputFile, pc, nRuns, nFaults, ret,
                   lookupCount>>
    /\ UNCHANGED Locals

ResetRequested == \E failure \in UnlinkFailures : Reset(failure)

NoSource == \E cause \in SourceFailures : SourceFails(cause)

NextMain == Next \/ ResetRequested \/ NoSource \/ NoCredential

\* source files of up to MainConn rows without email
InitMain == InitFor({Plain(n) : n \in 0..MainConn})

SpecMain == InitMain /\ [][NextMain]_vars

\* processConnections called with any sample size: null, zero, negative or
\* positive (main passes only null or a positive number, lines 812-815)
AnySampleSizes == {<<>>} \cup {<<k>> : k \in (0 - MaxSample)..MaxSample}

RunAny == \E rs \in BOOLEAN, ss \in AnySampleSizes : StartRun(rs, ss)

NextSample ==
    \/ RunAny
    \/ IssueLookup
    \/ Lookup
    \/ WriteRow
    \/ MarkProcessed
    \/ Sleep
    \/ FinalSave

SpecSample == InitMain /\ [][NextSample]_vars

(************************ rows that differ in form *************************)
\* Rows of one contact written in different ways.  normalizeConnectionData
\* trims the name (lines 189, 196) and takes the company as it is in the
\* source file (line 204): the name varies in letter case, the company in
\* letter case and in white space around it.
KeyRows ==
    {[name |-> n, company |-> c, email |-> NoEmail] :
        n \in {<<"n", "1">>, <<"N", "1">>},
        c \in {<<"x">>, <<"X">>, <<" ", "x">>, <<"x", " ">>}}

KeyInputs == {<<a, b>> : a \in KeyRows, b \in KeyRows}

InitKey == InitFor(KeyInputs)

SpecKey == InitKey /\ [][Next]_vars

(********************** answers of the lookup provider *********************)
MEDIUM == <<"M", "E", "D", "I", "U", "M">>

\* an answer with the given text after its CONFIDENCE tag
AnswerWith(confidence) ==
    <<[tag |-> "EMAIL", val |-> NOT_FOUND],
      [tag |-> "SOURCE", val |-> <<"w">>],
      [tag |-> "CONFIDENCE", val |-> confidence]>>

\* an answer without a CONFIDENCE line
AnswerWithout == <<[tag |-> "EMAIL", val |-> SomeEmail], [tag |-> "SOURCE", val |-> <<"w">>]>>

\* What the model can answer: the text is the model's, nothing in searchEmail
\* constrains it.  The prompt shows the format "CONFIDENCE: [HIGH/MEDIUM/LOW]"
\* (line 351); an answer can repeat the brackets.
AnyOutcomes ==
    Outcomes \cup
    {[kind |-> "ok", text |-> AnswerWith(MEDIUM)],
     [kind |-> "ok", text |-> AnswerWith(<<" ">> \o LOW)],
     [kind |-> "ok", text |-> AnswerWith(<<"[">> \o HIGH \o <<"]">>)],
     [kind |-> "ok", text |-> AnswerWithout]}

LookupAny == \E outcome \in AnyOutcomes : LookupReturns(outcome)

NextProvider ==
    \/ Run
    \/ IssueLookup
    \/ LookupAny
    \/ WriteRow
    \/ MarkProcessed
    \/ Sleep
    \/ FinalSave

SpecProvider == InitMain /\ [][NextProvider]_vars

(***************************** command line *******************************)
MaxArgs == 2

DigitChars == {"0", "1", "2", "3", "4", "5", "6", "7", "8", "9"}

DigitValue(c) == CHOOSE v \in 0..9 : <<"0", "1", "2", "3", "4", "5", "6", "7", "8", "9">>[v + 1] = c

\* the value of the longest prefix of digits of s, and whether there is one
RECURSIVE DigitPrefix(_, _, _)
DigitPrefix(s, acc, any) ==
    IF s # <<>> /\ Head(s) \in DigitChars
    THEN DigitPrefix(Tail(s), 10 * acc + DigitValue(Head(s)), TRUE)
    ELSE [value |-> acc, any |-> any]

\* parseInt(s): leading white space is skipped, a sign is read, then digits
\* as far as they go; NaN (<<>>) when there is no digit
ParseInt(str) ==
    LET s == TrimStart(str)
        neg == s # <<>> /\ Head(s) = "-"
        body == IF s # <<>> /\ Head(s) \in {"-", "+"} THEN Tail(s) ELSE s
        d == DigitPrefix(body, 0, FALSE)
    IN  IF ~d.any THEN <<>> ELSE IF neg THEN <<0 - d.value>> ELSE <<d.value>>

ArgN == <<"-", "n">>
ArgH == <<"-", "h">>
ArgHelp == <<"-", "-", "h", "e", "l", "p">>
ArgR == <<"-", "r">>
ArgResume == <<"-", "-", "r", "e", "s", "u", "m", "e">>
ArgReset == <<"-", "-", "r", "e", "s", "e", "t">>

\* the arguments of the model: the flags, an unknown flag, and values for -n
Tokens == {ArgN, ArgH, ArgR, ArgReset, <<"-", "x">>, <<"2">>, <<"0">>, <<"2", ".", "5">>}

ArgLists == UNION {[1..n -> Tokens] : n \in 0..MaxArgs}

DefaultOptions ==
    [exit |-> FALSE, sampleSize |-> <<>>, showHelp |-> FALSE, resume |-> FALSE, reset |-> FALSE]

\* lines 807-829: the loop over the arguments; exit: process.exit(1) was called
RECURSIVE ParseFrom(_, _, _)
ParseFrom(args, k, options) ==
    IF k > Len(args) THEN options
    ELSE IF args[k] = ArgN /\ k + 1 <= Len(args)
         THEN LET n == ParseInt(args[k + 1])
              IN  IF n = <<>> \/ n[1] <= 0
                  THEN [options EXCEPT !.exit = TRUE]
                  ELSE ParseFrom(args, k + 2, [options EXCEPT !.sampleSize = n])
         ELSE IF args[k] \in {ArgH, ArgHelp}
              THEN ParseFrom(args, k + 1, [options EXCEPT !.showHelp = TRUE])
              ELSE IF args[k] \in {ArgR, ArgResume}
                   THEN ParseFrom(args, k + 1, [options EXCEPT !.resume = TRUE])
                   ELSE IF args[k] = ArgReset
                        THEN ParseFrom(args, k + 1, [options EXCEPT !.reset = TRUE])
                        ELSE IF args[k] # <<>> /\ Head(args[k]) = "-"
                             THEN [options EXCEPT !.exit = TRUE]
                             ELSE ParseFrom(args, k + 1, options)

parseCommandLineArgs(args) == ParseFrom(args, 1, DefaultOptions)

\* lines 870-910: main is started with the arguments args and the credential
\* set: the arguments are parsed, help is shown, or the files are reset when
\* asked for and main awaits loadConnections
Cli(args) ==
    /\ pc = "idle"
    /\ nRuns < MaxRuns
    /\ argv' = args
    /\ hist' = [hist EXCEPT !.before = <<progressFile, outputFile>>]
    /\ LET options == parseCommandLineArgs(args)
       IN  IF options.exit
           THEN /\ run' = [run EXCEPT !.end = "usage", !.exit = <<1>>]
                /\ UNCHANGED <<pc, progressFile, outputFile>>
           ELSE IF options.showHelp
                THEN /\ run' = [run EXCEPT !.end = "help", !.exit = <<0>>]
                     /\ UNCHANGED <<pc, progressFile, outputFile>>
                ELSE /\ run' = [run EXCEPT !.end = IF options.reset THEN "reset" ELSE "main",
                                           !.exit = <<>>]
                     /\ pc' = "load"
                     /\ progressFile' = IF options.reset
                                        THEN resetProgress(progressFile, outputFile, "none").progressFile
                                        ELSE progressFile
                     /\ outputFile' = IF options.reset
                                      THEN resetProgress(progressFile, outputFile, "none").outputFile
                                      ELSE outputFile
    /\ UNCHANGED <<connections, batchSize, nRuns, nFaults, ret, lookupCount>>
    /\ UNCHANGED Locals

\* line 913: loadConnections has resolved, processConnections is called with
\* the options of the command line
CliRun ==
    /\ pc = "load"
    /\ StartRun(parseCommandLineArgs(argv).resume, parseCommandLineArgs(argv).sampleSize)

CommandLine == \E args \in ArgLists : Cli(args)

NextCli ==
    \/ CommandLine
    \/ CliRun
    \/ IssueLookup
    \/ Lookup
    \/ WriteRow
    \/ MarkProcessed
    \/ Sleep
    \/ FinalSave

SpecCli == InitMain /\ [][NextCli]_vars

(***************************************************************************)
(*                               claims                                    *)
(***************************************************************************)
NoDuplicates(s) == \A a, b \in 1..Len(s) : a # b => s[a] # s[b]

CandidateKeys == [k \in 1..Len(MissingEmails(connections)) |->
                     KeyOf(connections[MissingEmails(connections)[k]])]

DistinctKeys == NoDuplicates(CandidateKeys)

NamesOfResults(rs) == [k \in 1..Len(rs) |-> rs[k].name]

NamesOfCandidates(idx) == [k \in 1..Len(idx) |-> connections[idx[k]].name]

\* a run with resume = true and no sample limit has returned, and the run
\* before it was killed between two records
ResumedAfterCrash ==
    /\ pc = "idle"
    /\ run.end = "returned"
    /\ run.resume
    /\ run.sampleSize = <<>>
    /\ run.after = "boundary"

\* C1: when the keys of the candidates are pairwise distinct and a run was
\* killed after one record was fully handled and before the next started, the
\* following run with resume = true returns exactly one result per candidate,
\* in input order: what an uninterrupted run returns.
C1_CrashSafety ==
    (ResumedAfterCrash /\ DistinctKeys) =>
        NamesOfResults(ret) = NamesOfCandidates(MissingEmails(connections))

\* C1 witness: the killed run had written a checkpoint of five records, and
\* the resumed run looked up the sixth
C1_Witness ==
    /\ ResumedAfterCrash
    /\ DistinctKeys
    /\ Len(run.keys) = CheckpointEvery
    /\ Len(run.looked) = 1
    /\ Len(ret) = 6

\* C2: over runs that all have resume = true, no key occurs twice in the
\* processed-key set (in memory or in the progress file), and no lookup is in
\* flight for a record whose key the progress file already lists as processed.
C2_NoDuplicateProcessing ==
    hist.allResume =>
        /\ NoDuplicates(progressFile.processedNames)
        /\ NoDuplicates(progress.processedNames)
        /\ pc = "await" => KeyOf(connection) \notin Range(progressFile.processedNames)

\* C3: in a lineage (a first run, then runs with resume = true), kills and
\* records that share a key included, no derived key is handed to the lookup
\* provider more than once.
C3_AtMostOneLookupPerKey ==
    hist.proper => \A k \in DOMAIN lookupCount : lookupCount[k] <= 1

RECURSIVE KeysOfResults(_)
KeysOfResults(rs) ==
    IF rs = <<>> THEN <<>>
    ELSE <<generateConnectionKey(Head(rs).name, Head(rs).company)>> \o KeysOfResults(Tail(rs))

\* keys and results correspond one to one
OneResultPerKey(keys, rs) ==
    /\ Len(keys) = Len(rs)
    /\ NoDuplicates(KeysOfResults(rs))
    /\ Range(keys) = Range(KeysOfResults(rs))

\* C4: in the ProgressState held in memory once a record is handled, and in
\* every progress file written, each processed key has exactly one result:
\* as many results as keys, and totalProcessed equal to both.
C4_ProgressStateInvariant ==
    /\ pc \in {"lookup", "sleep", "final"} => OneResultPerKey(progress.processedNames, results)
    /\ progressFile.exists =>
           /\ OneResultPerKey(progressFile.processedNames, progressFile.results)
           /\ progressFile.totalProcessed = Len(progressFile.results)

\* every candidate's key is in the processed-key set of the progress file
AllProcessed ==
    \A k \in 1..Len(CandidateKeys) : CandidateKeys[k] \in Range(progressFile.processedNames)

\* a step that starts a run with resume = true
ResumeStarts == pc = "idle" /\ nRuns' = nRuns + 1 /\ run'.resume

\* C5: when no unprocessed candidate is left, a run with resume = true returns
\* at once with the persisted results, issues no lookup and leaves both files
\* as they are; the second of two such runs returns what the first returned.
C5_IdempotentResume ==
    [][(ResumeStarts /\ AllProcessed) =>
          /\ pc' = "idle"
          /\ run'.end = "returned"
          /\ run'.looked = <<>>
          /\ lookupCount' = lookupCount
          /\ outputFile' = outputFile
          /\ progressFile' = progressFile
          /\ ret' = progressFile.results
          /\ (run.end = "returned" /\ run.resume /\ run.looked = <<>>) => ret' = ret]_vars

\* C5 witness: two runs with resume = true in a row found every candidate
\* processed and returned the results of the first run
C5_Witness ==
    /\ pc = "idle"
    /\ nRuns = 3
    /\ AllProcessed
    /\ run.end = "returned" /\ run.resume /\ run.looked = <<>>
    /\ run.after = "returned" /\ run.prevResume /\ run.prevCand = <<>>
    /\ Len(ret) >= 2
    /\ Len(DataRows(outputFile)) = Len(ret)

Increasing(s) == \A a, b \in 1..Len(s) : a < b => s[a] < s[b]

IsPrefix(s, t) == Len(s) <= Len(t) /\ s = SubSeq(t, 1, Len(s))

\* the rows without email whose key the progress file did not list when the
\* latest run started
UnprocessedAtStart ==
    {c \in 1..Len(connections) :
        IsMissingEmail(connections[c]) /\ KeyOf(connections[c]) \notin Range(run.keys)}

\* the latest run has resume = true and a sample limit, and follows a run with
\* a sample limit that returned
SampleAfterSample ==
    /\ run.end \in {"running", "returned"}
    /\ run.after = "returned"
    /\ run.resume
    /\ Truthy(run.sampleSize)
    /\ Truthy(run.prevSample)

\* C6: a run with resume = true and sample limit m that follows a completed
\* run with sample limit k has as candidates the first m unprocessed rows in
\* input order (all of them if fewer), none of them a candidate of the first
\* run, looks them up in that order and, when it returns, has looked up all.
C6_SampleMonotonicity ==
    SampleAfterSample =>
        /\ Increasing(run.cand)
        /\ Range(run.cand) \subseteq UnprocessedAtStart
        /\ Len(run.cand) = Min(run.sampleSize[1], Cardinality(UnprocessedAtStart))
        /\ \A c \in UnprocessedAtStart \ Range(run.cand) : \A d \in Range(run.cand) : d < c
        /\ Range(run.cand) \cap Range(run.prevCand) = {}
        /\ \A c \in Range(run.prevCand) : KeyOf(connections[c]) \in Range(run.keys)
        /\ IsPrefix(run.looked, run.cand)
        /\ run.end = "returned" => run.looked = run.cand

\* C6 witness: after a run with limit 2 over rows 1 and 2, the resumed run with
\* limit 2 has looked up rows 3 and 4
C6_Witness ==
    /\ SampleAfterSample
    /\ run.end = "returned"
    /\ run.prevSample = <<2>> /\ run.prevCand = <<1, 2>>
    /\ run.sampleSize = <<2>> /\ run.looked = <<3, 4>>
    /\ Len(connections) > 4

\* a run with a sample limit has returned, in a lineage (a first run, then
\* runs with resume = true) whose candidates have pairwise distinct keys
SampledRunReturned ==
    /\ pc = "idle"
    /\ run.end = "returned"
    /\ Truthy(run.sampleSize)
    /\ hist.proper
    /\ DistinctKeys

\* a run with resume = true and no limit has returned after a run with a limit
ResumedAfterSample ==
    /\ pc = "idle"
    /\ run.end = "returned"
    /\ run.resume
    /\ run.sampleSize = <<>>
    /\ run.after = "returned"
    /\ Truthy(run.prevSample)
    /\ hist.proper
    /\ DistinctKeys

\* the run issued n lookups, added n data rows and n persisted keys
RunDid(n) ==
    /\ Len(run.looked) = n
    /\ Len(DataRows(outputFile)) - Len(run.rows) = n
    /\ Len(progressFile.processedNames) - Len(run.keys) = n

\* the output file is one header followed by the rows of the run's results
HeaderAndRows ==
    outputFile.rows = <<HeaderRow>> \o [k \in 1..Len(run.session) |-> DataRow(run.session[k])]

\* the later resumed run looked up what the limited run left, and returns one
\* result per candidate
ResumeCompletes ==
    /\ Len(run.remaining) = run.prevRemaining - Min(run.prevSample[1], run.prevRemaining)
    /\ Len(run.looked) = Len(run.remaining)
    /\ Len(ret) = Len(MissingEmails(connections))

\* C7 as stated: a run with sample limit k >= 1 and c remaining candidates
\* issues min(k, c) lookups, writes min(k, c) data rows and adds min(k, c)
\* persisted keys; on a fresh lineage the output file then is one header plus
\* those rows; a later resume without limit processes the rest, and the final
\* results sequence has one entry per candidate.
C7_LookupCap_Original ==
    /\ SampledRunReturned =>
           /\ RunDid(Min(run.sampleSize[1], Len(run.remaining)))
           /\ run.fresh => HeaderAndRows
    /\ ResumedAfterSample => ResumeCompletes

\* C7 as amended: the same, but the output file is one header plus the rows
\* only if the run had a candidate; with no candidate no file is written.
C7_LookupCap ==
    /\ SampledRunReturned =>
           /\ RunDid(Min(run.sampleSize[1], Len(run.remaining)))
           /\ (run.fresh /\ Len(run.remaining) >= 1) => HeaderAndRows
           /\ (run.fresh /\ Len(run.remaining) = 0) =>
                  (~outputFile.exists /\ ~progressFile.exists)
    /\ ResumedAfterSample => ResumeCompletes

\* C7 witness: four candidates; the first run with limit 2 looked up two of
\* them, the resumed run without limit the other two, and returned four results
C7_Witness ==
    /\ ResumedAfterSample
    /\ run.fresh = FALSE
    /\ run.prevSample = <<2>> /\ Len(run.prevCand) = 2 /\ run.prevRemaining = 4
    /\ Len(run.looked) = 2
    /\ Len(ret) = 4
    /\ Len(progressFile.processedNames) = 4
    /\ Len(outputFile.rows) = 5

RowsOf(rs) == [k \in 1..Len(rs) |-> DataRow(rs[k])]

\* the data rows of the output file once the latest run has written its first
\* w rows: a run with resume = true continues the rows it found, a run with
\* resume = false starts the file over
RowsAfter(w) ==
    (IF w = 0 \/ run.resume THEN run.rows ELSE <<>>) \o RowsOf(SubSeq(run.session, 1, w))

\* the results of the current run whose row has been written
Written == IF pc = "write" THEN Len(currentSession) - 1 ELSE Len(currentSession)

\* C8: during a run the lookups are issued in the input order of the run's
\* candidates, the results come back in that order, and the data rows of the
\* output file are the rows the run found (when resuming) followed by the rows
\* of this run's results, in the order of the lookups.
C8_OrderPreservation ==
    pc # "idle" =>
        /\ Increasing(missingEmails)
        /\ IsPrefix(run.looked, missingEmails)
        /\ NamesOfResults(currentSession)
               = NamesOfCandidates(SubSeq(run.looked, 1, Len(currentSession)))
        /\ run.session = currentSession
        /\ DataRows(outputFile) = RowsAfter(Written)

\* C8 witness: a resumed run has appended two rows after the two rows of the
\* run before it
C8_Witness ==
    /\ pc = "final"
    /\ run.resume
    /\ Len(run.rows) = 2
    /\ run.looked = <<3, 4>>
    /\ [k \in 1..4 |-> DataRows(outputFile)[k].result.name]
           = NamesOfCandidates(<<1, 2, 3, 4>>)

\* the result of a failed lookup: empty email and source, confidence LOW, the
\* error text as response
Degraded(r) ==
    /\ r.email = <<>>
    /\ r.source = <<>>
    /\ r.confidence = LOW
    /\ r.response = ErrorMessage

\* C9: a failed lookup gives a degraded result for its candidate; no run ends
\* by an exception out of a lookup; the run goes on, and when it returns it has looked up every candidate and reports one
\* result for each, in the returned sequence and in the output file.
C9_GracefulDegradation ==
    /\ \A j \in run.failed :
           /\ Degraded(run.session[j])
           /\ run.session[j].name = connections[run.cand[j]].name
    /\ run.end # "threw"
    /\ (run.end = "returned" /\ run.failed # {}) =>
           /\ run.looked = run.cand
           /\ NamesOfResults(run.session) = NamesOfCandidates(run.cand)
           /\ Len(ret) >= Len(run.session)
           /\ SubSeq(ret, Len(ret) - Len(run.session) + 1, Len(ret)) = run.session
           /\ Len(DataRows(outputFile)) >= Len(run.session)
           /\ SubSeq(DataRows(outputFile), Len(DataRows(outputFile)) - Len(run.session) + 1,
                     Len(DataRows(outputFile))) = RowsOf(run.session)

\* C9 witness: the lookup of the first of three candidates failed and the run
\* returned three results
C9_Witness ==
    /\ pc = "idle"
    /\ run.end = "returned"
    /\ run.failed = {1}
    /\ Len(run.cand) = 3
    /\ Len(ret) = 3
    /\ ret[2].confidence = HIGH

\* C10: at most one lookup is in flight; while one is in flight, and after
\* every record, the output file holds the rows of all results that came back
\* in this run; between the return of a lookup and its write only that one row
\* is missing.  A kill leaves the file so: at most the last result of the
\* killed run has no row.
C10_FlushBeforeNext ==
    /\ pc # "idle" =>
           /\ Len(run.looked) - Len(run.session) = (IF pc = "await" THEN 1 ELSE 0)
           /\ DataRows(outputFile) = RowsAfter(Written)
           /\ pc # "write" => Written = Len(run.session)
    /\ run.end \in {"boundary", "mid"} =>
           \E w \in {Len(run.session) - 1, Len(run.session)} :
               w >= 0 /\ DataRows(outputFile) = RowsAfter(w)

\* C10 witness: a run was killed while its third lookup was in flight, and the
\* output file holds the rows of the two results before it
C10_Witness ==
    /\ pc = "idle"
    /\ run.end = "mid"
    /\ Len(run.looked) = 3
    /\ Len(run.session) = 2
    /\ DataRows(outputFile) = RowsOf(run.session)

\* the file is one header row followed by data rows only
OneHeaderFirst(file) ==
    file.rows # <<>> =>
        /\ file.rows[1] = HeaderRow
        /\ \A k \in 2..Len(file.rows) : file.rows[k].kind = "data"

\* C11: in every state of a lineage (a first run, then runs with
\* resume = true), a non-empty output file begins with one header row and
\* holds no other header row.
C11_SingleHeader == hist.proper => OneHeaderFirst(outputFile)

\* the rows whose email is empty (blank) or the N/A marker
WithoutEmail ==
    {c \in 1..Len(connections) :
        Trim(connections[c].email) = <<>> \/ connections[c].email = NotAvailable}

\* the result was made for a row without email
FromRowWithoutEmail(r) ==
    \E c \in WithoutEmail : r.name = connections[c].name /\ r.company = connections[c].company

\* the results held in memory, returned, persisted or written as rows
AllResults ==
    Range(results) \cup Range(ret) \cup Range(progressFile.results)
        \cup {row.result : row \in Range(DataRows(outputFile))}

\* the processed keys held in memory or persisted
AllKeys == Range(progress.processedNames) \cup Range(progressFile.processedNames)

\* C12: lookups are issued for rows without email only (empty, or the N/A
\* marker); every result, in memory, returned, persisted or written to the
\* output file, and every processed key stems from such a row: a row that
\* carries an email contributes nothing.
C12_CandidateFilter ==
    /\ Range(run.looked) \subseteq WithoutEmail
    /\ Range(missingEmails) \subseteq WithoutEmail
    /\ \A r \in AllResults : FromRowWithoutEmail(r)
    /\ \A k \in AllKeys : \E c \in WithoutEmail : k = KeyOf(connections[c])

\* C12 witness: row 1 of three carries an email; the run looked up rows 2 and
\* 3 and returned two results, none with the name of row 1
C12_Witness ==
    /\ pc = "idle"
    /\ run.end = "returned"
    /\ Len(connections) = 3
    /\ connections[1].email = SomeEmail
    /\ run.looked = <<2, 3>>
    /\ Len(ret) = 2
    /\ \A k \in 1..2 : ret[k].name # connections[1].name
    /\ Len(outputFile.rows) = 3

\* what a run that returned is to return: the results the progress file held
\* when the run started, if it has resume = true, then the results of its own
\* lookups in the order of the lookups
ExpectedReturn ==
    (IF run.resume THEN run.fileResults ELSE <<>>) \o run.session

\* C13: a run that returns has one result per lookup it issued, in lookup
\* order; with resume = true it returns the results loaded from the progress
\* file followed by these, with resume = false these only.
C13_ReturnValue ==
    (pc = "idle" /\ run.end = "returned") =>
        /\ NamesOfResults(run.session) = NamesOfCandidates(run.looked)
        /\ ret = ExpectedReturn

\* C13 witness: a run with resume = true found two persisted results, looked
\* up rows 3 and 4 and returned four results; and a run with resume = false
\* found persisted results and returned its own only
C13_Witness ==
    /\ pc = "idle"
    /\ run.end = "returned"
    /\ run.resume
    /\ Len(run.fileResults) = 2
    /\ run.looked = <<3, 4>>
    /\ NamesOfResults(ret) = NamesOfCandidates(<<1, 2, 3, 4>>)

C13_WitnessNoResume ==
    /\ pc = "idle"
    /\ run.end = "returned"
    /\ ~run.resume
    /\ Len(run.fileResults) = 2
    /\ run.looked = <<1, 2, 3>>
    /\ NamesOfResults(ret) = NamesOfCandidates(<<1, 2, 3>>)

\* the rows without email that a run with argument resume = rs has to look up
LeftFor(rs) ==
    {c \in WithoutEmail :
        ~(rs /\ progressFile.exists /\ KeyOf(connections[c]) \in Range(progressFile.processedNames))}

\* a step that starts a run
RunStarts == pc = "idle" /\ nRuns' = nRuns + 1

\* C14: a run that finds no candidate left (no row without email, or with
\* resume = true all of them processed) returns at once: with resume = true
\* the results of the progress file, else no results; it issues no lookup and
\* leaves the output file as it is.
C14_EmptyCandidateSet ==
    [][(RunStarts /\ LeftFor(run'.resume) = {}) =>
          /\ pc' = "idle"
          /\ run'.end = "returned"
          /\ ret' = (IF run'.resume THEN progressFile.results ELSE <<>>)
          /\ run'.looked = <<>>
          /\ lookupCount' = lookupCount
          /\ outputFile' = outputFile]_vars

\* C14 witness: the only row carries an email; a run with resume = false and a
\* sample limit returned no results and wrote no output file
C14_Witness ==
    /\ pc = "idle"
    /\ run.end = "returned"
    /\ Len(connections) = 1
    /\ connections[1].email = SomeEmail
    /\ ~run.resume
    /\ run.sampleSize = <<2>>
    /\ run.cand = <<>>
    /\ ret = <<>>
    /\ ~outputFile.exists

\* the number, within the run, of the record whose key is about to be marked
Nth == Len(currentSession)

\* the record is the 5th, 10th, 15th, ... of the run, or the last of the run
CadenceDue == Nth % 5 = 0 \/ Nth = Len(run.cand)

\* C15: the progress file is written when the key of the run's 5th, 10th,
\* 15th, ... record and of its last record is marked, after the row of that
\* record was written: the file then holds the key and all results so far.  It
\* is not written when any other record is marked, nor at any other step of
\* the loop; the save at the end of the run rewrites what the last record's
\* checkpoint wrote.
C15_CheckpointCadence ==
    [][/\ (pc = "mark" /\ CadenceDue) =>
              /\ outputFile.rows[Len(outputFile.rows)] = DataRow(currentSession[Nth])
              /\ progressFile'.exists
              /\ KeyOf(connections[run.looked[Nth]]) \in Range(progressFile'.processedNames)
              /\ progressFile'.processedNames = progress'.processedNames
              /\ progressFile'.results = results
              /\ progressFile' # progressFile
       /\ (pc = "mark" /\ ~CadenceDue) => progressFile' = progressFile
       /\ pc \in {"lookup", "await", "write", "sleep"} => progressFile' = progressFile
       /\ pc = "final" =>
              /\ progressFile'.processedNames = progressFile.processedNames
              /\ progressFile'.results = progressFile.results]_vars

\* C15 witness: in a run over eleven candidates the tenth record is completed
\* and the progress file holds ten keys and ten results
C15_Witness ==
    /\ pc = "sleep"
    /\ Len(run.cand) = 11
    /\ Nth = 10
    /\ Len(progressFile.processedNames) = 10
    /\ Len(progressFile.results) = 10
    /\ Len(outputFile.rows) = 11

\* C16: whenever a run of processConnections has returned, it has written the
\* progress file at its end: the file exists, was written in this run and
\* holds the results the run returned, also when the run had no candidate.
C16_FinalFlush ==
    (pc = "idle" /\ run.end = "returned") =>
        /\ progressFile.exists
        /\ progressFile.lastUpdate = Now
        /\ progressFile.results = ret

\* the progress file is missing, or cannot be read or parsed
NoUsableProgress == ~progressFile.exists \/ ~progressFile.readable

\* s holds, in input order, the first rows without email: all of them, or as
\* many as the sample limit ss allows
FirstWithoutEmail(s, ss) ==
    /\ Increasing(s)
    /\ Range(s) \subseteq WithoutEmail
    /\ Len(s) = IF ss = <<>> THEN Cardinality(WithoutEmail)
                ELSE Min(ss[1], Cardinality(WithoutEmail))
    /\ \A c \in WithoutEmail \ Range(s) : \A d \in Range(s) : d < c

\* C17: a run with resume = true that finds the progress file missing,
\* unreadable or unparseable does not end by an exception; it starts from the
\* empty ProgressState like a run with resume = false: its candidates are all
\* rows without email (up to the sample limit), it starts with no results and
\* no processed key and takes the present time as start time, and with no
\* candidate it returns no results.
C17_FailSoftLoad ==
    [][(RunStarts /\ run'.resume /\ NoUsableProgress) =>
          /\ run'.end # "threw"
          /\ FirstWithoutEmail(run'.cand, run'.sampleSize)
          /\ run'.cand # <<>> =>
                 /\ pc' = "lookup"
                 /\ missingEmails' = run'.cand
                 /\ progress' = EmptyProgress
                 /\ results' = <<>>
                 /\ startTime' = nRuns'
          /\ run'.cand = <<>> => (pc' = "idle" /\ run'.end = "returned" /\ ret' = <<>>)]_vars

\* C17 witness: the progress file lists two processed keys but cannot be
\* parsed; the run with resume = true has all three rows as candidates
C17_Witness ==
    /\ pc = "lookup"
    /\ resume
    /\ progressFile.exists
    /\ ~progressFile.readable
    /\ Len(progressFile.processedNames) = 2
    /\ missingEmails = <<1, 2, 3>>
    /\ results = <<>>
    /\ run.looked = <<>>

\* C18: no run ends by an exception out of a write; a run in which the write
\* of an output row or of a checkpoint failed goes on: when it returns it has
\* looked up every candidate and returns the loaded results followed by one
\* result per candidate, the record whose write failed included.
C18_PersistenceErrors ==
    /\ run.end # "threw"
    /\ (pc = "idle" /\ run.end = "returned" /\ run.ioFailed) =>
           /\ run.looked = run.cand
           /\ NamesOfResults(run.session) = NamesOfCandidates(run.cand)
           /\ ret = ExpectedReturn

\* C18 witness: the write of one of three output rows failed; the run
\* returned three results and the output file holds two data rows
C18_Witness ==
    /\ pc = "idle"
    /\ run.end = "returned"
    /\ run.ioFailed
    /\ Len(run.cand) = 3
    /\ Len(ret) = 3
    /\ Len(DataRows(outputFile)) = 2
    /\ Len(progressFile.results) = 3

\* C18 witness: the checkpoint after the fifth of six records failed to be
\* written; the run went on and returned six results
C18_WitnessCheckpoint ==
    /\ pc = "idle"
    /\ run.end = "returned"
    /\ run.ioFailed
    /\ Len(run.cand) = 6
    /\ Len(ret) = 6
    /\ Len(DataRows(outputFile)) = 6
    /\ Len(progressFile.results) = 6

\* C19: once resetProgress has returned, the progress file and the output file
\* are both absent; the run that follows, with or without resume, starts with
\* an empty processed set and writes the header with its first row.
C19_Reset ==
    /\ pc = "load" => (~progressFile.exists /\ ~outputFile.exists)
    /\ (pc = "lookup" /\ run.after = "reset" /\ run.looked = <<>>) =>
           (progress.processedNames = <<>> /\ isFirstResult)

PositiveInteger(str) ==
    /\ str # <<>>
    /\ \A k \in 1..Len(str) : str[k] \in DigitChars
    /\ \E k \in 1..Len(str) : str[k] # "0"

\* the words of the command line that are flags: all but the values of -n
RECURSIVE FlagPositions(_, _)
FlagPositions(args, k) ==
    IF k > Len(args) THEN {}
    ELSE IF args[k] = ArgN /\ k + 1 <= Len(args)
         THEN {k} \cup FlagPositions(args, k + 2)
         ELSE {k} \cup FlagPositions(args, k + 1)

AsksForHelp(args) == \E k \in FlagPositions(args, 1) : args[k] \in {ArgH, ArgHelp}

\* an unknown flag (a -n without value is one), or a -n whose value is not a
\* positive integer
Rejected(args) ==
    \E k \in FlagPositions(args, 1) :
        \/ /\ args[k] = ArgN
           /\ k + 1 <= Len(args) => ~PositiveInteger(args[k + 1])
        \/ /\ args[k] # <<>> /\ Head(args[k]) = "-"
           /\ args[k] \notin {ArgN, ArgH, ArgHelp, ArgR, ArgResume, ArgReset}

\* C21: when the arguments ask for help, hold an unknown flag or give -n a
\* value that is not a positive integer, the process ends at once: no run is
\* started, hence no lookup issued, and the progress file and the output file
\* are as they were, --reset or --resume among the arguments or not; the exit
\* code is not 0 for an unknown flag or a bad value of -n.
C21_CommandLineGate ==
    (AsksForHelp(argv) \/ Rejected(argv)) =>
        /\ pc = "idle"
        /\ run.end \in {"usage", "help"}
        /\ <<progressFile, outputFile>> = hist.before
        /\ Rejected(argv) => (run.exit # <<>> /\ run.exit # <<0>>)

\* the key as the claim derives it
TrimmedKey(name, company) ==
    ToLowerCase(Trim(name)) \o <<"|">> \o ToLowerCase(Trim(company))

\* C22: every key the program derives and stores is lowercase(trim(name)) +
\* "|" + lowercase(trim(company)) of a row; rows that differ only in letter
\* case or in white space around the name or the company are one contact: on
\* resume none is a candidate once the key of one of them is persisted.
C22_KeyDerivation ==
    /\ \A c \in 1..Len(connections) :
           KeyOf(connections[c]) \in AllKeys =>
               KeyOf(connections[c]) = TrimmedKey(connections[c].name, connections[c].company)
    /\ (run.resume /\ run.end \in {"running", "returned"}) =>
           \A c \in Range(run.cand) : \A d \in 1..Len(connections) :
               KeyOf(connections[d]) \in Range(run.keys) =>
                   TrimmedKey(connections[c].name, connections[c].company)
                       # TrimmedKey(connections[d].name, connections[d].company)

\* C23: every result in the results sequence, in memory, returned, persisted
\* or written, has confidence HIGH, MEDIUM or LOW; the result of a failed
\* lookup and of an answer without CONFIDENCE line has LOW.
C23_ConfidenceDomain ==
    /\ \A r \in AllResults : r.confidence \in {HIGH, MEDIUM, LOW}
    /\ \A j \in 1..Len(run.session) :
           (j \in run.failed \/ FirstLine(run.session[j].response, "CONFIDENCE") = 0) =>
               run.session[j].confidence = LOW

\* C24: every write of the progress file stamps lastUpdate with the time of
\* the write; the write that creates the file, and every write of a run with
\* resume = false, sets startTime to the start of the run that writes; no
\* write of a run with resume = true changes the startTime of a file that is
\* there.
C24_LineageStartTime ==
    [][progressFile' # progressFile =>
          /\ progressFile'.lastUpdate = Now
          /\ ~(progressFile.exists /\ resume) => progressFile'.startTime = Now
          /\ (progressFile.exists /\ resume) =>
                 progressFile'.startTime = progressFile.startTime]_vars

\* C24 witness: the third run of a lineage, with resume = true, has written a
\* checkpoint: the start time is that of the first run, lastUpdate is now
C24_Witness ==
    /\ nRuns = 3
    /\ run.resume
    /\ run.looked # <<>>
    /\ progressFile.exists
    /\ progressFile.startTime = 1
    /\ progressFile.lastUpdate = 3

\* C25: a lookup is issued at the start of the run or after one delay; the
\* delay starts right after the key of a record is marked (its row written,
\* its checkpoint written when due) and only when the run has candidates left
\* to look up; after the delay the next lookup follows, and after the last
\* record of the run no delay is awaited.
C25_RateLimiting ==
    [][/\ (pc' = "lookup" /\ pc # "lookup") => pc \in {"idle", "sleep"}
       /\ (pc' = "lookup" /\ pc = "idle") => run'.looked = <<>>
       /\ pc = "sleep" => pc' = "lookup"
       /\ pc' = "sleep" =>
              /\ pc = "mark"
              /\ outputFile.rows[Len(outputFile.rows)] = DataRow(currentSession[Nth])
              /\ KeyOf(connections[run.looked[Nth]]) \in Range(progress'.processedNames)
              /\ CadenceDue => progressFile'.results = results
              /\ Len(run.looked) < Len(run.cand)
       /\ pc = "mark" => (pc' = "sleep" <=> Len(run.looked) < Len(run.cand))
       /\ (pc = "mark" /\ pc' # "sleep") => pc' = "final"]_vars

\* C25 witness: the delay after the fifth record, the last of its batch, is
\* being awaited; six more candidates follow
C25_Witness ==
    /\ pc = "sleep"
    /\ Len(run.cand) = 11
    /\ Len(run.looked) = 5
    /\ Len(progressFile.results) = 5

\* C26: after every run of a lineage (a first run, then runs with
\* resume = true) that returns, the data rows of the output file are, in
\* order, the rows of the results stored in the progress file.
C26_SinkProgressAgreement ==
    (hist.proper /\ pc = "idle" /\ run.end = "returned") =>
        DataRows(outputFile) = RowsOf(progressFile.results)

\* the records of the running call that are complete: looked up, written to
\* the output file and marked
Completed ==
    IF pc \in {"write", "mark"} THEN Len(currentSession) - 1 ELSE Len(currentSession)

\* the results of the running call that the progress file holds: those of a
\* checkpoint this call wrote
PersistedOfRun ==
    IF progressFile.exists /\ progressFile.readable /\ progressFile.lastUpdate = Now
    THEN Len(progressFile.results) - (Len(results) - Len(currentSession))
    ELSE 0

CheckpointLag == Completed - PersistedOfRun

\* the records the running call has looked up that a run with resume = true
\* over the files as they are now would look up again: positions in run.looked
RedoneAfter(pfile) ==
    {k \in 1..Len(run.looked) :
        run.looked[k] \in Range(Candidates(connections, loadProgress(pfile), TRUE, <<>>))}

\* C27: while a lookup is being issued or is in flight, at most 4 records
\* the run has completed are missing from the progress file; when the process
\* is killed, a run with resume = true would look up again at most 4 completed
\* records and the one in flight, and the resumed run that follows does so.
C27_BoundedCheckpointLag ==
    [][/\ pc' \in {"lookup", "await"} => CheckpointLag' <= 4
       /\ (pc # "idle" /\ pc' = "idle" /\ run'.end \in {"mid", "boundary"}) =>
              /\ Cardinality(RedoneAfter(progressFile') \cap 1..Completed) <= 4
              /\ Cardinality(RedoneAfter(progressFile') \ 1..Completed) <= 1
       /\ (run.end \in {"mid", "boundary"} /\ nRuns' = nRuns + 1 /\ run'.resume) =>
              /\ Range(run'.cand) \cap Range(run.looked)
                     \subseteq {run.looked[k] : k \in RedoneAfter(progressFile)}
              /\ Cardinality(Range(run'.cand) \cap Range(run.looked)) <= 5]_vars

\* a run resumed after a kill in the fifth lookup has looked up the first five
\* records again, four of them complete and none in the progress file
C27_Witness ==
    /\ pc = "await"
    /\ run.resume /\ run.after = "mid"
    /\ Len(run.looked) = 5
    /\ \A k \in 1..5 : lookupCount[KeyOf(connections[k])] = 2
    /\ CheckpointLag = 4

\* the position in the candidates that a run with batchSize = 1 is at after
\* the records looked up so far
PositionOfOne ==
    IF pc = "lookup" THEN Len(run.looked) ELSE Len(run.looked) - 1

FreshRunReturned == pc = "idle" /\ run.end = "returned" /\ ~run.resume

\* the run looked up every row without email, in the order of the source
\* file, up to its sample limit, whatever the progress file listed
SkippedNoCandidate ==
    /\ Range(run.looked) \subseteq WithoutEmail
    /\ \A j, k \in 1..Len(run.looked) : j < k => run.looked[j] < run.looked[k]
    /\ \A c \in WithoutEmail : \A k \in Range(run.looked) : c < k => c \in Range(run.looked)
    /\ Len(run.looked) = IF Truthy(run.sampleSize)
                         THEN Min(run.sampleSize[1], Cardinality(WithoutEmail))
                         ELSE Cardinality(WithoutEmail)

\* the two files hold what this run produced and nothing else
OnlyThisRun ==
    /\ outputFile.exists /\ progressFile.exists
    /\ outputFile.rows = <<HeaderRow>> \o RowsOf(run.session)
    /\ progressFile.results = run.session
    /\ progressFile.processedNames =
           NewSet([k \in 1..Len(run.looked) |-> KeyOf(connections[run.looked[k]])])

\* C29 as stated: when a run with resume = false has returned, it has skipped
\* no candidate, the output file is one header plus this run's rows and the
\* progress file holds this run's keys and results only.
C29_FreshRunReplaces_Original ==
    FreshRunReturned => (SkippedNoCandidate /\ OnlyThisRun)

\* C29 as amended: the same for a run that had at least one candidate; a run
\* with no candidate returns early and leaves both files as it found them.
C29_FreshRunReplaces ==
    FreshRunReturned =>
        /\ SkippedNoCandidate
        /\ Len(run.cand) >= 1 => OnlyThisRun
        /\ Len(run.cand) = 0 =>
               /\ outputFile = AbsentOutputFile
               /\ progressFile = AbsentProgressFile

\* a run with resume = false and sample limit 2 has returned after a run that
\* had left three rows and three keys: the files hold its two records only
C29_Witness ==
    /\ FreshRunReturned
    /\ run.after = "returned"
    /\ Len(run.rows) = 3 /\ Len(run.keys) = 3
    /\ Len(run.looked) = 2
    /\ Len(outputFile.rows) = 3
    /\ Len(progressFile.processedNames) = 2
    /\ Len(progressFile.results) = 2

\* C30: while every run of the lineage has resume = true, no step removes a
\* key from the processed keys of the progress file, and every step leaves
\* the results of the progress file as they are or adds results at their end.
C30_MonotonicLineageState ==
    [][hist'.allResume =>
           /\ Range(progressFile.processedNames) \subseteq Range(progressFile'.processedNames)
           /\ IsPrefix(progressFile.results, progressFile'.results)]_vars

\* a run with resume = true, started after a kill that left five results in
\* the progress file, has returned with a sixth result added at the end
C30_Witness ==
    /\ hist.allResume
    /\ pc = "idle" /\ run.end = "returned"
    /\ run.after = "mid"
    /\ Len(run.keys) = 5 /\ Len(run.fileResults) = 5
    /\ Len(run.looked) = 1
    /\ Len(progressFile.processedNames) = 6
    /\ SubSeq(progressFile.results, 1, 5) = run.fileResults
    /\ Len(progressFile.results) = 6

\* the result searchEmail returns from its catch block
IsFailedResult(r) == r.confidence = LOW /\ r.email = <<>> /\ r.source = <<>>

\* the results of the latest run whose row has been written, and those whose
\* key has been marked
WrittenOfRun == IF pc = "write" THEN Len(run.session) - 1 ELSE Len(run.session)

MarkedOfRun == IF pc \in {"write", "mark"} THEN Len(run.session) - 1 ELSE Len(run.session)

\* the data rows of failed lookups that the latest run found in the output file
FailedRowsFound == {k \in 1..Len(run.rows) : IsFailedResult(run.rows[k].result)}

\* C31: a lookup that failed gives the result with empty email and source
\* and confidence LOW; the run goes on as after a successful lookup: the row
\* of that result is written to the output file, the key of the candidate is
\* marked and, when the run has returned, listed in the progress file; and a
\* later run with resume = true has no candidate with the key of a failed row.
C31_FailedLookupsNotRetried ==
    /\ \A k \in run.failed :
           /\ run.session[k] =
                  [name |-> connections[run.looked[k]].name,
                   company |-> connections[run.looked[k]].company,
                   response |-> ErrorMessage,
                   source |-> <<>>, email |-> <<>>, confidence |-> LOW]
           /\ run.end \in {"running", "returned"}
           /\ k <= WrittenOfRun =>
                  outputFile.rows[Len(outputFile.rows) - (WrittenOfRun - k)] = DataRow(run.session[k])
           /\ (k <= MarkedOfRun /\ pc # "idle") =>
                  KeyOf(connections[run.looked[k]]) \in Range(progress.processedNames)
           /\ pc = "idle" => KeyOf(connections[run.looked[k]]) \in Range(progressFile.processedNames)
    /\ (hist.proper /\ run.resume) =>
           \A k \in FailedRowsFound : \A c \in Range(run.cand) :
               KeyOf(connections[c]) #
                   generateConnectionKey(run.rows[k].result.name, run.rows[k].result.company)

\* a run with resume = true has found the row of a failed lookup, has looked
\* up the candidates that were left, and has returned
C31_Witness ==
    /\ hist.proper /\ run.resume
    /\ pc = "idle" /\ run.end = "returned"
    /\ FailedRowsFound # {}
    /\ Len(run.looked) >= 2
    /\ Len(progressFile.results) = Len(run.rows) + Len(run.looked)

\* the rows without email that the run had to take: all of them, or with
\* resume = true those whose key the progress file did not list
LeftToDo ==
    {c \in WithoutEmail : ~run.resume \/ KeyOf(connections[c]) \notin Range(run.keys)}

\* C32: a run called with sample size 0 or a negative number has every
\* remaining candidate as its candidates, as a run with sample size null
\* has; when it has returned it has looked up each of them, in order, and
\* returns one result for each after the results it loaded.
C32_NonPositiveSampleLimit ==
    (run.end \in {"running", "returned"} /\ run.sampleSize # <<>> /\ run.sampleSize[1] <= 0) =>
        /\ run.cand = Candidates(connections,
                                 [EmptyProgress EXCEPT !.processedNames = run.keys],
                                 run.resume, <<>>)
        /\ Range(run.cand) = LeftToDo
        /\ Len(run.cand) = Cardinality(LeftToDo)
        /\ (pc = "idle" /\ run.end = "returned") =>
               /\ run.looked = run.cand
               /\ Len(run.session) = Len(run.cand)
               /\ ret = (IF run.resume THEN run.fileResults ELSE <<>>) \o run.session

\* a run called with sample size -1 over two candidates has looked up both
\* and returned
C32_Witness ==
    /\ pc = "idle" /\ run.end = "returned"
    /\ run.sampleSize = <<-1>>
    /\ Len(run.looked) = 2
    /\ Len(ret) = 2
    /\ Len(progressFile.results) = 2

\* a run called with sample size 0 after a run with limit 1 has looked up the
\* candidate that was left
C32_WitnessZero ==
    /\ pc = "idle" /\ run.end = "returned"
    /\ run.sampleSize = <<0>> /\ run.resume
    /\ run.prevSample = <<1>>
    /\ Len(run.looked) = 1
    /\ Len(ret) = 2

\* C33: a call of processConnections that has started returns in the end,
\* under every batchSize from 1 to MaxBatch and whether the lookups answer or
\* fail; and when it returns it has looked up the candidates of the run, each
\* once and in their order.
C33_Termination ==
    /\ [][(pc' = "idle" /\ run'.end = "returned") =>
              /\ run'.looked = run'.cand
              /\ \A j, k \in 1..Len(run'.looked) : j < k => run'.looked[j] < run'.looked[k]
              /\ \A c \in Range(run'.cand) : lookupCount'[KeyOf(connections[c])] <= nRuns']_vars
    /\ (pc # "idle") ~> (pc = "idle" /\ run.end = "returned")

\* a run under batchSize = 2 over LiveConn candidates, one of whose lookups
\* failed, has returned
C33_Witness ==
    /\ batchSize = 2
    /\ pc = "idle" /\ run.end = "returned"
    /\ run.failed # {}
    /\ run.looked = run.cand
    /\ Len(run.cand) = LiveConn

====
